---- MODULE Spec2Model ----
(***************************************************************************)
(* Model of the LSL stream simulator (streamer.py) and of the XDF          *)
(* recording verifier (tester.py).                                         *)
(*                                                                         *)
(* Spec / FairSpec : the generate program: the main thread (controller),   *)
(*                   four EEG generator threads and one marker thread      *)
(*                   sharing the global stop_event.                        *)
(* VerifySpec      : the verify program: verify_xdf_recording run on a     *)
(*                   recording of up to MaxStreams streams.                *)
(* TimingSpec      : the verify program run on recordings made of the      *)
(*                   generator's streams with varied time stamps.          *)
(***************************************************************************)
EXTENDS Integers, Sequences, FiniteSets, TLC

\* ------------------------------------------------------------------------
\* Bounds of the model
\* ------------------------------------------------------------------------
\* samples one EEG thread pushes before the model stops following it
MaxSamples == 1
\* markers the marker thread pushes before the model stops following it
MaxMarkers == 2
\* KeyboardInterrupts delivered to the main thread in one run
MaxInterrupts == 2
\* random.random() is modelled as k / UniformSteps, k in 0..UniformSteps
UniformSteps == 2
\* streams in a recording
MaxStreams == 6

\* ------------------------------------------------------------------------
\* streamer.py: configuration
\* ------------------------------------------------------------------------
eeg_stream_configs ==
    << [name |-> "EEG_Stream_1Hz",   type |-> "EEG", n_channels |-> 4,  srate |-> 1,   amplitude |-> 50],
       [name |-> "EEG_Stream_10Hz",  type |-> "EEG", n_channels |-> 8,  srate |-> 10,  amplitude |-> 100],
       [name |-> "EEG_Stream_250Hz", type |-> "EEG", n_channels |-> 16, srate |-> 250, amplitude |-> 200],
       [name |-> "EEG_Stream_500Hz", type |-> "EEG", n_channels |-> 32, srate |-> 500, amplitude |-> 400] >>

marker_stream_config ==
    [name |-> "Test_Markers", type |-> "Markers", n_channels |-> 1, srate |-> 0,
     marker_interval_ms |-> <<500, 2000>>,
     marker_types |-> <<"Onset", "Stimulus", "Response", "Error", "Event_A", "Event_B">>]

\* thread identities: 1..4 run create_eeg_stream on eeg_stream_configs[t],
\* MarkerThread runs create_marker_stream
EEGThreads == 1..Len(eeg_stream_configs)
MarkerThread == Len(eeg_stream_configs) + 1
Threads == EEGThreads \cup {MarkerThread}

\* durations are kept in microseconds; one second is
MicrosPerSecond == 1000000

\* random.uniform(a, b) = a + (b - a) * random.random()
Uniform(a, b) == { a + ((b - a) * k) \div UniformSteps : k \in 0..UniformSteps }

\* faulty variant: the interval is divided by 100 instead of 1000
MillisToSecondsBy100(ms) == (ms * MicrosPerSecond) \div 100

\* "/ 1000.0" of line 69: milliseconds to seconds (here: seconds in microseconds)
MillisToSeconds(ms) == (ms * MicrosPerSecond) \div 1000

\* sleep_time of line 69
MarkerSleepTimes ==
    { MillisToSeconds(u) : u \in Uniform(marker_stream_config.marker_interval_ms[1],
                                         marker_stream_config.marker_interval_ms[2]) }

\* 1.0 / config["srate"] of line 49
EEGSleepTime(t) == MicrosPerSecond \div eeg_stream_configs[t].srate

VARIABLES
    main_pc,       \* position of the main thread
    threads,       \* the list `threads` of the main block
    joined,        \* number of threads the join loop has joined
    stop_event,    \* the global threading.Event
    interrupts,    \* KeyboardInterrupts delivered so far
    pc,            \* position of every generator thread
    sample_count,  \* samples the thread has pushed (the local sample_count of an EEG thread)
    sleep_time,    \* length of the thread's last time.sleep, 0 before the first
    last_test,     \* what the thread's last loop test found: "clear", "set", or "none" once acted on
    pushed,        \* for every sample an EEG thread has pushed to its outlet, the phase it was computed from
    v_pc,                 \* position of verify_xdf_recording
    n_streams,            \* len(streams) of the loaded recording
    stream_index,         \* streams examined so far
    stream,               \* stream['info'] of the stream examined last
    tag,                  \* what the examination of that stream printed
    notes,                \* what lines 66-78 printed about the timing of that stream
    load_error,           \* the load error of lines 22-23 was printed
    exit_status,          \* exit status of the verify program, -1 while it runs
    found_eeg_streams,    \* the dict of line 36
    found_marker_stream,  \* the flag of line 37
    all_expected_found,   \* the verdict of lines 106-118
    summary,              \* summary line printed for every expected stream
    names_seen,           \* names of the streams examined so far
    names_matching        \* names of the examined streams that carry the expected properties

genVars == << main_pc, threads, joined, stop_event, interrupts,
              pc, sample_count, sleep_time, last_test, pushed >>
verVars == << v_pc, n_streams, stream_index, stream, tag, notes, load_error,
              exit_status, found_eeg_streams,
              found_marker_stream, all_expected_found, summary,
              names_seen, names_matching >>
vars == << genVars, verVars >>

mainVars == << main_pc, threads, joined, stop_event, interrupts >>
threadVars == << pc, sample_count, sleep_time, last_test, pushed >>

Terminated == {"stopped", "failed"}

GenInit ==
    /\ main_pc = "start"
    /\ threads = << >>
    /\ joined = 0
    /\ stop_event = FALSE
    /\ interrupts = 0
    /\ pc = [t \in Threads |-> "idle"]
    /\ sample_count = [t \in Threads |-> 0]
    /\ sleep_time = [t \in Threads |-> 0]
    /\ last_test = [t \in Threads |-> "none"]
    /\ pushed = [t \in EEGThreads |-> << >>]

\* ------------------------------------------------------------------------
\* streamer.py: the main thread
\* ------------------------------------------------------------------------
\* lines 77-80: one iteration of the loop over eeg_stream_configs
StartEEG ==
    /\ main_pc = "start"
    /\ Len(threads) < Len(eeg_stream_configs)
    /\ LET t == Len(threads) + 1 IN
         /\ threads' = Append(threads, t)
         /\ pc' = [pc EXCEPT ![t] = "create"]
    /\ UNCHANGED << main_pc, joined, stop_event, interrupts,
                    sample_count, sleep_time, last_test, pushed, verVars >>

\* lines 83-87: the marker thread is started and the main thread enters the try
StartMarker ==
    /\ main_pc = "start"
    /\ Len(threads) = Len(eeg_stream_configs)
    /\ threads' = Append(threads, MarkerThread)
    /\ pc' = [pc EXCEPT ![MarkerThread] = "create"]
    /\ main_pc' = "try"
    /\ UNCHANGED << joined, stop_event, interrupts,
                    sample_count, sleep_time, last_test, pushed, verVars >>

\* lines 90-91: while True: time.sleep(1)
KeepAlive ==
    /\ main_pc = "try"
    /\ UNCHANGED vars

\* lines 89-93: a KeyboardInterrupt raised inside the try is caught
InterruptInTry ==
    /\ main_pc = "try"
    /\ interrupts < MaxInterrupts
    /\ interrupts' = interrupts + 1
    /\ main_pc' = "except"
    /\ UNCHANGED << threads, joined, stop_event, threadVars, verVars >>

\* lines 74-87 and 93-97: a KeyboardInterrupt raised outside the try is not
\* caught; the main thread ends with the exception
InterruptOutsideTry ==
    /\ main_pc \in {"start", "except", "join"}
    /\ interrupts < MaxInterrupts
    /\ interrupts' = interrupts + 1
    /\ main_pc' = "crashed"
    /\ UNCHANGED << threads, joined, stop_event, threadVars, verVars >>

\* lines 93-94: stop_event.set()
SetStop ==
    /\ main_pc = "except"
    /\ stop_event' = TRUE
    /\ main_pc' = "join"
    /\ joined' = 0
    /\ UNCHANGED << threads, interrupts, threadVars, verVars >>

\* faulty variant: join returns without waiting for the thread
JoinReturnsAtOnce(t) == TRUE

\* thread.join() of line 96 returns once the thread has ended
JoinReturns(t) == pc[t] \in Terminated

\* faulty variant: the main thread ends the thread it joins
JoinKills ==
    /\ main_pc = "join"
    /\ joined < Len(threads)
    /\ pc' = [pc EXCEPT ![threads[joined + 1]] = "stopped"]
    /\ joined' = joined + 1
    /\ UNCHANGED << main_pc, threads, stop_event, interrupts,
                    sample_count, sleep_time, last_test, pushed, verVars >>

\* lines 95-96: one iteration of the join loop
Join ==
    /\ main_pc = "join"
    /\ joined < Len(threads)
    /\ JoinReturns(threads[joined + 1])
    /\ joined' = joined + 1
    /\ UNCHANGED << main_pc, threads, stop_event, interrupts, threadVars, verVars >>

\* line 97: the join loop is over
AllStopped ==
    /\ main_pc = "join"
    /\ joined = Len(threads)
    /\ main_pc' = "done"
    /\ UNCHANGED << threads, joined, stop_event, interrupts, threadVars, verVars >>

\* ------------------------------------------------------------------------
\* streamer.py: the generator threads
\* ------------------------------------------------------------------------
\* samples the model follows a thread for
SampleBound(t) == IF t = MarkerThread THEN MaxMarkers ELSE MaxSamples

\* lines 29-38 and 54-63: StreamInfo and StreamOutlet are created
CreateOutlet(t) ==
    /\ pc[t] = "create"
    /\ pc' = [pc EXCEPT ![t] = "check"]
    /\ UNCHANGED << verVars, mainVars, sample_count, sleep_time, last_test, pushed >>

\* the outlet of a thread that ends is destroyed with the thread
Closed(t) == [u \in EEGThreads |-> IF u = t THEN << >> ELSE pushed[u]]

\* faulty variant: a failing thread takes the others down by setting stop_event
RaiseStopsAll(t) ==
    /\ pc' = [pc EXCEPT ![t] = "failed"]
    /\ sample_count' = [sample_count EXCEPT ![t] = 0]
    /\ sleep_time' = [sleep_time EXCEPT ![t] = 0]
    /\ last_test' = [last_test EXCEPT ![t] = "none"]
    /\ pushed' = Closed(t)
    /\ stop_event' = TRUE
    /\ UNCHANGED << verVars, main_pc, threads, joined, interrupts >>

\* the thread ends with an exception; its locals end with it
Raise(t) ==
    /\ pc' = [pc EXCEPT ![t] = "failed"]
    /\ sample_count' = [sample_count EXCEPT ![t] = 0]
    /\ sleep_time' = [sleep_time EXCEPT ![t] = 0]
    /\ last_test' = [last_test EXCEPT ![t] = "none"]
    /\ pushed' = Closed(t)
    /\ UNCHANGED << verVars, mainVars >>

\* lines 29-37 and 54-62: the transport raises while the outlet is created
CreateFails(t) ==
    /\ pc[t] = "create"
    /\ Raise(t)

\* faulty variant: the loop never looks at stop_event ("while True")
LoopTestIgnoresStop == TRUE

\* the value of "not stop_event.is_set()" at lines 41 and 65
LoopTest == ~stop_event

\* faulty variant: a thread that finds stop_event set runs the loop body once more
CheckStopFlushes(t) ==
    /\ pc[t] = "check"
    /\ IF ~stop_event
         THEN /\ sample_count[t] < SampleBound(t)
              /\ last_test' = [last_test EXCEPT ![t] = "clear"]
         ELSE /\ sample_count[t] < SampleBound(t)
              /\ last_test' = [last_test EXCEPT ![t] = "set"]
    /\ pc' = [pc EXCEPT ![t] = "body"]
    /\ UNCHANGED << verVars, mainVars, sample_count, sleep_time, pushed >>

\* lines 41, 50 and 65, 71: the loop test; on exit the thread prints
\* "Stream stopped." and ends, its locals with it
CheckStop(t) ==
    /\ pc[t] = "check"
    /\ IF LoopTest
         THEN /\ sample_count[t] < SampleBound(t)
              /\ pc' = [pc EXCEPT ![t] = "body"]
              /\ last_test' = [last_test EXCEPT ![t] = "clear"]
              /\ UNCHANGED << sample_count, sleep_time, pushed >>
         ELSE /\ pc' = [pc EXCEPT ![t] = "stopped"]
              /\ last_test' = [last_test EXCEPT ![t] = "set"]
              /\ sample_count' = [sample_count EXCEPT ![t] = 0]
              /\ sleep_time' = [sleep_time EXCEPT ![t] = 0]
              /\ pushed' = Closed(t)
    /\ UNCHANGED << verVars, mainVars >>

\* line 44: sample_count % (config["srate"] * 2), the only part of a sample
\* that depends on the thread's state
Phase(t, count) == count % (eeg_stream_configs[t].srate * 2)

\* faulty variant: the sample is counted before it is computed
PushEEGCountsFirst(t) ==
    /\ t \in EEGThreads
    /\ pc[t] = "body"
    /\ sample_count' = [sample_count EXCEPT ![t] = @ + 1]
    /\ pushed' = [pushed EXCEPT ![t] = Append(@, Phase(t, sample_count[t] + 1))]
    /\ sleep_time' = [sleep_time EXCEPT ![t] = EEGSleepTime(t)]
    /\ pc' = [pc EXCEPT ![t] = "check"]
    /\ last_test' = [last_test EXCEPT ![t] = "none"]
    /\ UNCHANGED << verVars, mainVars >>

\* lines 43-49: an EEG sample is computed, pushed and counted, and the
\* thread sleeps 1/srate seconds
PushEEG(t) ==
    /\ t \in EEGThreads
    /\ pc[t] = "body"
    /\ pushed' = [pushed EXCEPT ![t] = Append(@, Phase(t, sample_count[t]))]
    /\ sample_count' = [sample_count EXCEPT ![t] = @ + 1]
    /\ sleep_time' = [sleep_time EXCEPT ![t] = EEGSleepTime(t)]
    /\ pc' = [pc EXCEPT ![t] = "check"]
    /\ last_test' = [last_test EXCEPT ![t] = "none"]
    /\ UNCHANGED << verVars, mainVars >>

\* faulty variant: once stop_event is set the marker thread pushes its
\* remaining markers without going back to the loop test
PushMarkerDrains ==
    /\ pc[MarkerThread] = "body"
    /\ \E s \in MarkerSleepTimes :
         sleep_time' = [sleep_time EXCEPT ![MarkerThread] = s]
    /\ sample_count' = [sample_count EXCEPT ![MarkerThread] = @ + 1]
    /\ pc' = [pc EXCEPT ![MarkerThread] =
                 IF stop_event /\ sample_count[MarkerThread] + 1 < MaxMarkers
                   THEN "body" ELSE "check"]
    /\ last_test' = [last_test EXCEPT ![MarkerThread] = "none"]
    /\ UNCHANGED << verVars, mainVars, pushed >>

\* lines 66-70: a marker is pushed, and the thread sleeps a drawn time
PushMarker ==
    /\ pc[MarkerThread] = "body"
    /\ \E s \in MarkerSleepTimes :
         sleep_time' = [sleep_time EXCEPT ![MarkerThread] = s]
    /\ sample_count' = [sample_count EXCEPT ![MarkerThread] = @ + 1]
    /\ pc' = [pc EXCEPT ![MarkerThread] = "check"]
    /\ last_test' = [last_test EXCEPT ![MarkerThread] = "none"]
    /\ UNCHANGED << verVars, mainVars, pushed >>

\* lines 47 and 67: push_sample raises
PushFails(t) ==
    /\ pc[t] = "body"
    /\ Raise(t)

\* ------------------------------------------------------------------------
\* tester.py: verify_xdf_recording
\* ------------------------------------------------------------------------
\* nominal rates are kept in thousandths of a hertz
MilliHz == 1000

\* faulty variant: the 250 Hz entry still lists 8 channels
expected_eeg_streams_8ch ==
    [name \in {"EEG_Stream_1Hz", "EEG_Stream_10Hz", "EEG_Stream_250Hz", "EEG_Stream_500Hz"} |->
       CASE name = "EEG_Stream_1Hz"   -> [type |-> "EEG", n_channels |-> 4,  srate |-> 1]
         [] name = "EEG_Stream_10Hz"  -> [type |-> "EEG", n_channels |-> 8,  srate |-> 10]
         [] name = "EEG_Stream_250Hz" -> [type |-> "EEG", n_channels |-> 8,  srate |-> 250]
         [] name = "EEG_Stream_500Hz" -> [type |-> "EEG", n_channels |-> 32, srate |-> 500]]

\* lines 26-31
expected_eeg_streams ==
    [name \in {"EEG_Stream_1Hz", "EEG_Stream_10Hz", "EEG_Stream_250Hz", "EEG_Stream_500Hz"} |->
       CASE name = "EEG_Stream_1Hz"   -> [type |-> "EEG", n_channels |-> 4,  srate |-> 1]
         [] name = "EEG_Stream_10Hz"  -> [type |-> "EEG", n_channels |-> 8,  srate |-> 10]
         [] name = "EEG_Stream_250Hz" -> [type |-> "EEG", n_channels |-> 16, srate |-> 250]
         [] name = "EEG_Stream_500Hz" -> [type |-> "EEG", n_channels |-> 32, srate |-> 500]]

\* the keys of expected_eeg_streams, in the order of the dict
ExpectedEEGNames ==
    << "EEG_Stream_1Hz", "EEG_Stream_10Hz", "EEG_Stream_250Hz", "EEG_Stream_500Hz" >>

\* lines 32-34
expected_marker_stream ==
    [name |-> "Test_Markers", type |-> "Markers", n_channels |-> 1, srate |-> 0]

\* int(text) of line 42, text a sequence of decimal digits
RECURSIVE ParseInt(_)
ParseInt(digits) ==
    IF digits = << >> THEN 0
    ELSE 10 * ParseInt(SubSeq(digits, 1, Len(digits) - 1)) + digits[Len(digits)]

\* float(text) of line 43, text = digits "." three digits; the value in MilliHz
ParseFloat(text) == ParseInt(text.whole) * MilliHz + ParseInt(text.frac)

\* faulty variant: the nominal rate is not compared
MatchesIgnoringRate(stream_type, n_channels, srate, expected) ==
    /\ stream_type = expected.type
    /\ n_channels = expected.n_channels

\* lines 84-86 and 93-95: the three comparisons with the expected configuration
Matches(stream_type, n_channels, srate, expected) ==
    /\ stream_type = expected.type
    /\ n_channels = expected.n_channels
    /\ srate = expected.srate * MilliHz

\* line 82: stream_name in expected_eeg_streams
IsExpectedEEG(stream_name) == stream_name \in DOMAIN expected_eeg_streams

\* faulty variant: every stream that is no expected EEG stream is taken for the marker stream
IsExpectedMarkerAny(stream_name) == TRUE

\* line 91: stream_name == expected_marker_stream["name"]
IsExpectedMarker(stream_name) == stream_name = expected_marker_stream.name

\* time stamps are kept in ticks of 100 microseconds; one second is
TicksPerSecond == 10000

Abs(x) == IF x < 0 THEN -x ELSE x

\* lines 70 and 72: abs(actual_srate - srate) / srate > 0.1, where actual_srate
\* is (count - 1) / duration; both sides are multiplied by srate * duration
\* to stay within the integers. The code computes in binary floating point.
\* Away from one tenth the rounding does not matter. At a deviation of
\* exactly one tenth: when the quotient of line 70 is a whole number of Hz
\* it is exact and the deviation computed is the double 0.1 itself, which
\* is not > 0.1; otherwise the quotient is rounded, and for the rates of the
\* catalog that is 1.1 Hz, computed as 0.10000000000000009 > 0.1, and
\* 0.9 Hz, computed as 0.09999999999999998
RateDeviates(count, duration, srate) ==
    LET actual  == (count - 1) * TicksPerSecond * MilliHz
        nominal == srate * duration
        exact   == ((count - 1) * TicksPerSecond) % duration = 0
    IN  IF 10 * Abs(actual - nominal) = nominal
          THEN ~exact /\ actual > nominal
          ELSE 10 * Abs(actual - nominal) > nominal

\* np.diff(time_stamps) of line 77
Diff(time_stamps) ==
    [k \in 1..(Len(time_stamps) - 1) |-> time_stamps[k + 1] - time_stamps[k]]

RECURSIVE Sum(_)
Sum(xs) == IF xs = << >> THEN 0 ELSE Head(xs) + Sum(Tail(xs))

\* np.std(xs) of line 77 is zero: the mean of the squares equals the square
\* of the mean
StdIsZero(xs) ==
    Len(xs) * Sum([k \in 1..Len(xs) |-> xs[k] * xs[k]]) = Sum(xs) * Sum(xs)

\* faulty variant: the interval line is printed only for equal gaps
TimingNotesFlagRegular(info) ==
    LET srate       == ParseFloat(info.nominal_srate)
        time_stamps == info.time_stamps
        count       == Len(time_stamps)
    IN  IF count = 0 THEN {}
        ELSE IF srate > 0 /\ count > 1
          THEN LET actual_duration == time_stamps[count] - time_stamps[1]
               IN  IF actual_duration > 0
                     THEN IF RateDeviates(count, actual_duration, srate)
                            THEN {"ACTUAL_RATE", "RATE_WARNING"}
                            ELSE {"ACTUAL_RATE"}
                     ELSE {"ZERO_DURATION"}
        ELSE IF srate = 0 /\ count > 1
          THEN IF StdIsZero(Diff(time_stamps))
                 THEN {"INTERVAL_STD", "STD_ZERO"}
                 ELSE {}
        ELSE {}

\* lines 54-78: what is printed about the timing of one stream: the actual
\* rate (line 71) and the rate warning (line 73), or the zero-duration
\* warning (line 75), or the line of the interval standard deviation
\* (line 78), where STD_ZERO says that the value it shows is zero
TimingNotes(info) ==
    LET srate       == ParseFloat(info.nominal_srate)
        time_stamps == info.time_stamps
        count       == Len(time_stamps)
    IN  IF count = 0 THEN {}
        ELSE IF srate > 0 /\ count > 1
          THEN LET actual_duration == time_stamps[count] - time_stamps[1]
               IN  IF actual_duration > 0
                     THEN IF RateDeviates(count, actual_duration, srate)
                            THEN {"ACTUAL_RATE", "RATE_WARNING"}
                            ELSE {"ACTUAL_RATE"}
                     ELSE {"ZERO_DURATION"}
        ELSE IF srate = 0 /\ count > 1
          THEN IF StdIsZero(Diff(time_stamps))
                 THEN {"INTERVAL_STD", "STD_ZERO"}
                 ELSE {"INTERVAL_STD"}
        ELSE {}

\* faulty variant: a stream whose measured rate deviates is a mismatch
ExaminationChecksRate(info) ==
    LET stream_name == info.name
        stream_type == info.type
        n_channels  == ParseInt(info.channel_count)
        srate       == ParseFloat(info.nominal_srate)
        steady      == "RATE_WARNING" \notin TimingNotes(info)
    IN  IF IsExpectedEEG(stream_name)
          THEN IF steady /\ Matches(stream_type, n_channels, srate, expected_eeg_streams[stream_name])
                 THEN "VERIFIED" ELSE "MISMATCH"
        ELSE IF IsExpectedMarker(stream_name)
          THEN IF steady /\ Matches(stream_type, n_channels, srate, expected_marker_stream)
                 THEN "VERIFIED" ELSE "MISMATCH"
        ELSE "INFO"

\* lines 82-101: what the examination of one stream prints
Examination(info) ==
    LET stream_name == info.name
        stream_type == info.type
        n_channels  == ParseInt(info.channel_count)
        srate       == ParseFloat(info.nominal_srate)
    IN  IF IsExpectedEEG(stream_name)
          THEN IF Matches(stream_type, n_channels, srate, expected_eeg_streams[stream_name])
                 THEN "VERIFIED" ELSE "MISMATCH"
        ELSE IF IsExpectedMarker(stream_name)
          THEN IF Matches(stream_type, n_channels, srate, expected_marker_stream)
                 THEN "VERIFIED" ELSE "MISMATCH"
        ELSE "INFO"

\* faulty variant: the flags start out True
InitialFoundTrue == [name \in DOMAIN expected_eeg_streams |-> TRUE]

\* line 36
InitialFound == [name \in DOMAIN expected_eeg_streams |-> FALSE]

\* lines 106-118: all_expected_found, folded over the EEG flags and the marker flag
RECURSIVE FoldFound(_, _, _)
FoldFound(names, found, acc) ==
    IF names = << >> THEN acc
    ELSE FoldFound(Tail(names), found, IF found[Head(names)] THEN acc ELSE FALSE)

\* faulty variant: the marker flag does not enter the verdict
VerdictEEGOnly(found_eeg, found_marker) ==
    FoldFound(ExpectedEEGNames, found_eeg, TRUE)

Verdict(found_eeg, found_marker) ==
    LET after_eeg == FoldFound(ExpectedEEGNames, found_eeg, TRUE)
    IN  IF found_marker THEN after_eeg ELSE FALSE

\* lines 109, 111, 115, 117: the summary line of an expected stream
FoundLine == "Found and verified"
MissingLine == "MISSING or MISCONFIGURED"
SummaryLine(found) == IF found THEN FoundLine ELSE MissingLine

\* ---- the recordings the model loads ------------------------------------
CatalogNames == DOMAIN expected_eeg_streams \cup {expected_marker_stream.name}
UnexpectedName == "Unexpected_Stream"

\* the expected configuration of a catalog name
ExpectedOf(name) ==
    IF name \in DOMAIN expected_eeg_streams THEN expected_eeg_streams[name]
    ELSE [type |-> expected_marker_stream.type,
          n_channels |-> expected_marker_stream.n_channels,
          srate |-> expected_marker_stream.srate]

\* decimal digits of a natural number, as the recording stores it
RECURSIVE DigitsOf(_)
DigitsOf(n) == IF n < 10 THEN << n >> ELSE Append(DigitsOf(n \div 10), n % 10)

RateText(whole, frac) ==
    [whole |-> DigitsOf(whole),
     frac |-> << frac \div 100, (frac \div 10) % 10, frac % 10 >>]

\* stream['info'] of a recorded stream: under every name, every mix of the
\* expected type, channel count and rate with a differing one (a stream of
\* an unexpected name is varied around the marker configuration); each
\* holds two samples, 2 ms apart
InfosNamed(n) ==
    LET e == ExpectedOf(IF n \in CatalogNames THEN n ELSE expected_marker_stream.name)
    IN  { [name |-> n, type |-> ty, channel_count |-> DigitsOf(c), nominal_srate |-> r,
           time_stamps |-> << 5, 25 >>] :
            ty \in {"EEG", "Markers"},
            c \in {e.n_channels, e.n_channels + 1},
            r \in {RateText(e.srate, 0), RateText(e.srate, 500)} }

RecordedInfos == UNION { InfosNamed(n) : n \in CatalogNames \cup {UnexpectedName} }

NoStream == [name |-> "", type |-> "", channel_count |-> << >>,
             nominal_srate |-> [whole |-> << >>, frac |-> << >>],
             time_stamps |-> << >>]

\* the recorded stream carries exactly the expected properties of its name
CarriesExpected(info) ==
    /\ info.name \in CatalogNames
    /\ info.type = ExpectedOf(info.name).type
    /\ info.channel_count = DigitsOf(ExpectedOf(info.name).n_channels)
    /\ info.nominal_srate = RateText(ExpectedOf(info.name).srate, 0)

VerInit ==
    /\ v_pc = "load"
    /\ n_streams = 0
    /\ stream_index = 0
    /\ stream = NoStream
    /\ tag = ""
    /\ notes = {}
    /\ load_error = FALSE
    /\ exit_status = -1
    /\ found_eeg_streams = InitialFound
    /\ found_marker_stream = FALSE
    /\ all_expected_found = FALSE
    /\ summary = [name \in CatalogNames |-> ""]
    /\ names_seen = {}
    /\ names_matching = {}

\* lines 14-37: pyxdf.load_xdf returns the streams; the found flags are set up
Load ==
    /\ v_pc = "load"
    /\ \E n \in 0..MaxStreams : n_streams' = n
    /\ found_eeg_streams' = InitialFound
    /\ found_marker_stream' = FALSE
    /\ v_pc' = "loop"
    /\ UNCHANGED << stream_index, stream, tag, notes, load_error, exit_status,
                    all_expected_found, summary, names_seen, names_matching, genVars >>

\* faulty variant: the return of line 24 is missing, the function goes on
\* with no streams
LoadFailsAndGoesOn ==
    /\ v_pc = "load"
    /\ v_pc' = "loop"
    /\ load_error' = TRUE
    /\ UNCHANGED << n_streams, stream_index, stream, tag, notes, exit_status, found_eeg_streams,
                    found_marker_stream, all_expected_found, summary,
                    names_seen, names_matching, genVars >>

\* lines 21-24: pyxdf.load_xdf raises; the error is printed and the function returns
LoadFails ==
    /\ v_pc = "load"
    /\ v_pc' = "load_error"
    /\ load_error' = TRUE
    /\ UNCHANGED << n_streams, stream_index, stream, tag, notes, exit_status, found_eeg_streams,
                    found_marker_stream, all_expected_found, summary,
                    names_seen, names_matching, genVars >>

\* what the generator declares for one of its configurations (lines 29-35
\* and 54-60 of streamer.py), as a recording of that outlet stores it
StreamInfo(config, time_stamps) ==
    [name |-> config.name, type |-> config.type,
     channel_count |-> DigitsOf(config.n_channels),
     nominal_srate |-> RateText(config.srate, 0),
     time_stamps |-> time_stamps]

\* `count` time stamps from 500 microseconds on, the last one `duration`
\* ticks after the first
Stamps(count, duration) ==
    [k \in 1..count |-> 5 + (IF count = 1 THEN 0 ELSE ((k - 1) * duration) \div (count - 1))]

\* time stamps of a recorded continuous stream of rate srate (in Hz): spaced
\* exactly 1/srate; 9 and 11 intervals in 10 periods (10% below and above
\* the nominal rate); 4 intervals in 5 periods (20% below); one sample;
\* two samples of one time stamp
EEGStamps(srate) ==
    LET period == TicksPerSecond \div srate
    IN  { Stamps(3, 2 * period), Stamps(10, 10 * period), Stamps(12, 10 * period),
          Stamps(5, 5 * period), Stamps(1, 0), Stamps(2, 0) }

\* time stamps of a recorded marker stream: gaps of 1 s and 1 s; gaps of
\* 0.5 s and 2 s; one marker
MarkerStamps ==
    { << 5, 10005, 20005 >>, << 5, 5005, 25005 >>, << 5 >> }

\* the streams of recordings made of the generator: each configuration as
\* declared and with one more channel, under each choice of time stamps,
\* and one stream of another program
TimedStreams ==
    LET more(config) == [config EXCEPT !.n_channels = @ + 1]
    IN  UNION { { StreamInfo(c, ts) : c \in {eeg_stream_configs[t], more(eeg_stream_configs[t])},
                                      ts \in EEGStamps(eeg_stream_configs[t].srate) } :
                t \in EEGThreads }
        \cup { StreamInfo(c, ts) : c \in {marker_stream_config, more(marker_stream_config)},
                                   ts \in MarkerStamps }
        \cup { StreamInfo([marker_stream_config EXCEPT !.name = UnexpectedName], << 5, 25 >>) }

\* faulty variant: a mismatch clears the flag
FlagAfterLastWins(flag, printed) == printed = "VERIFIED"

\* lines 88 and 97: the flag is set by a [VERIFIED] stream and left alone by
\* every other
FlagAfter(flag, printed) == IF printed = "VERIFIED" THEN TRUE ELSE flag

\* lines 39-103: one iteration of the loop over the streams, the stream
\* being one of `recorded`
ExamineFrom(recorded) ==
    /\ v_pc = "loop"
    /\ stream_index < n_streams
    /\ \E info \in recorded :
         LET printed == Examination(info) IN
         /\ stream' = info
         /\ tag' = printed
         /\ notes' = TimingNotes(info)
         /\ found_eeg_streams' =
              IF IsExpectedEEG(info.name)
                THEN [found_eeg_streams EXCEPT ![info.name] = FlagAfter(@, printed)]
                ELSE found_eeg_streams
         /\ found_marker_stream' =
              IF ~IsExpectedEEG(info.name) /\ IsExpectedMarker(info.name)
                THEN FlagAfter(found_marker_stream, printed)
                ELSE found_marker_stream
         /\ names_seen' = names_seen \cup {info.name}
         /\ names_matching' =
              IF CarriesExpected(info) THEN names_matching \cup {info.name}
              ELSE names_matching
    /\ stream_index' = stream_index + 1
    /\ UNCHANGED << v_pc, n_streams, load_error, exit_status,
                    all_expected_found, summary, genVars >>

Examine == ExamineFrom(RecordedInfos)

ExamineTimed == ExamineFrom(TimedStreams)

\* lines 105-127: the summary and the verdict
Summarize ==
    /\ v_pc = "loop"
    /\ stream_index = n_streams
    /\ summary' = [name \in CatalogNames |->
                     IF name \in DOMAIN found_eeg_streams
                       THEN SummaryLine(found_eeg_streams[name])
                       ELSE SummaryLine(found_marker_stream)]
    /\ all_expected_found' = Verdict(found_eeg_streams, found_marker_stream)
    /\ v_pc' = "done"
    /\ UNCHANGED << n_streams, stream_index, stream, tag, notes, load_error,
                    exit_status, found_eeg_streams,
                    found_marker_stream, names_seen, names_matching, genVars >>

\* faulty variant: the script exits with 1 unless the verdict is success
ExitStatusByVerdict(loaded, verdict) == IF loaded /\ verdict THEN 0 ELSE 1

\* the exit status of the script: verify_xdf_recording returns None on both
\* paths (lines 24 and 127) and line 136 is the last statement
ExitStatus(loaded, verdict) == 0

\* lines 129-136: the call returns and the program ends
Exit ==
    /\ v_pc \in {"done", "load_error"}
    /\ exit_status = -1
    /\ exit_status' = ExitStatus(v_pc = "done", all_expected_found)
    /\ UNCHANGED << v_pc, n_streams, stream_index, stream, tag, notes, load_error,
                    found_eeg_streams, found_marker_stream, all_expected_found,
                    summary, names_seen, names_matching, genVars >>

ThreadStep(t) ==
    \/ CreateOutlet(t)
    \/ CheckStop(t)
    \/ PushEEG(t)
    \/ (t = MarkerThread /\ PushMarker)

ThreadFails(t) ==
    \/ CreateFails(t)
    \/ PushFails(t)

MainStep ==
    \/ StartEEG
    \/ StartMarker
    \/ SetStop
    \/ Join
    \/ AllStopped

Init == GenInit /\ VerInit

Next ==
    \/ MainStep
    \/ KeepAlive
    \/ InterruptInTry
    \/ InterruptOutsideTry
    \/ \E t \in Threads : ThreadStep(t)
    \/ \E t \in Threads : ThreadFails(t)

Spec == Init /\ [][Next]_vars

\* every thread that can run does run, and so does the main thread;
\* interrupts and transport failures are not forced to happen
FairSpec ==
    /\ Spec
    /\ WF_vars(MainStep)
    /\ \A t \in Threads : WF_vars(ThreadStep(t))

\* the verify program; the generate program is not running
VerifyInit == VerInit /\ GenInit

VerifyNext ==
    \/ Load
    \/ LoadFails
    \/ Examine
    \/ Summarize
    \/ Exit

VerifySpec == VerifyInit /\ [][VerifyNext]_vars

\* the verify program run on recordings of the generator's streams
TimingNext ==
    \/ Load
    \/ LoadFails
    \/ ExamineTimed
    \/ Summarize
    \/ Exit

TimingSpec == VerifyInit /\ [][TimingNext]_vars

\* ========================================================================
\* Properties of the generate program (Spec, FairSpec)
\* ========================================================================
Started == { threads[k] : k \in 1..Len(threads) }

\* C1: when the main thread has finished its stop sequence (it has printed
\* "All LSL streams stopped."), all four EEG threads and the marker thread
\* were started and every one of them has ended.
ShutdownNotReportedEarly ==
    main_pc = "done" =>
        /\ Started = Threads
        /\ \A t \in Threads : pc[t] \in Terminated

ShutdownReported ==
    /\ main_pc = "done"
    /\ joined = Len(threads)
    /\ \E t \in Threads : pc[t] = "stopped"

InterruptSetsStop ==
    (main_pc \in {"done", "crashed"} /\ interrupts > 0 /\ threads # << >>) => stop_event

\* C4: a generator thread pushes only right after a loop test that found
\* stop_event unset, and once its loop test has found stop_event set it
\* pushes nothing more and stays ended.
NoPushAfterStopObserved ==
    [][\A t \in Threads :
         /\ sample_count'[t] = sample_count[t] + 1
              => (pc[t] = "body" /\ last_test[t] = "clear")
         /\ last_test[t] = "set"
              => (sample_count'[t] = sample_count[t] /\ pc'[t] = "stopped"
                  /\ last_test'[t] = "set")]_vars

\* stop_event is set and seen by one thread while another one, which passed
\* its loop test before, is still to push
StopObservedWhileOtherInBody ==
    /\ stop_event
    /\ \E t, u \in Threads :
         /\ pc[t] = "stopped" /\ last_test[t] = "set"
         /\ pc[u] = "body" /\ last_test[u] = "clear"

MicrosPerMilli == MicrosPerSecond \div 1000

MarkerGapsWithinInterval ==
    [][(sample_count'[MarkerThread] = sample_count[MarkerThread] + 1
        /\ sample_count[MarkerThread] >= 1)
          => (sleep_time[MarkerThread] >= marker_stream_config.marker_interval_ms[1] * MicrosPerMilli
              /\ sleep_time[MarkerThread] <= marker_stream_config.marker_interval_ms[2] * MicrosPerMilli)]_vars

\* the marker thread has pushed twice
MarkerPushedTwice ==
    /\ sample_count[MarkerThread] >= 2
    /\ pc[MarkerThread] = "check"

\* C15: a generator thread ends only by its own step: in the step in which
\* it ends the main thread does nothing; it ends as "stopped" only from its
\* loop test, with stop_event set and the test having returned "set", and as
\* "failed" only from a transport call; no step of the main thread changes
\* the position of a started thread; and no thread is stopped while
\* stop_event is unset.
OnlyCooperativeTermination ==
    /\ [][\A t \in Threads :
            (pc'[t] \in Terminated /\ pc[t] \notin Terminated) =>
                /\ mainVars' = mainVars
                /\ pc'[t] = "stopped" =>
                     (pc[t] = "check" /\ stop_event /\ last_test'[t] = "set")
                /\ pc'[t] = "failed" => pc[t] \in {"create", "body"}]_vars
    /\ [][mainVars' # mainVars =>
            \A t \in Threads : pc[t] # "idle" => pc'[t] = pc[t]]_vars
    /\ [](\A t \in Threads : pc[t] = "stopped" => (stop_event /\ last_test[t] = "set"))

\* one thread has stopped by its own loop test while the main thread waits
\* in the join loop and another thread is still running
StoppedWhileOthersRun ==
    /\ main_pc = "join"
    /\ \E t, u \in Threads :
         /\ pc[t] = "stopped" /\ last_test[t] = "set"
         /\ pc[u] \in {"check", "body"}

\* how far a thread at this position is from its end
Progress(position) ==
    CASE position = "idle"                -> 0
      [] position \in {"create", "body"} -> 1
      [] position = "check"               -> 2
      [] position \in Terminated         -> 3

\* C16: stop_event, once set, stays set, and from then on every step of a
\* generator thread takes it strictly closer to its end, along
\* body -> loop test -> ended; a push with its sleep is the step from the
\* body to the loop test, so a thread makes at most one more push and one
\* more sleep after stop_event is set, and none if it was at its loop test.
AtMostOnePushAfterStop ==
    /\ [][stop_event => stop_event']_vars
    /\ [][\A t \in Threads :
            (stop_event /\ << pc[t], sample_count[t], sleep_time[t] >>
                            # << pc'[t], sample_count'[t], sleep_time'[t] >>) =>
                /\ Progress(pc'[t]) > Progress(pc[t])
                /\ pc[t] = "check" => pc'[t] = "stopped"
                /\ sample_count'[t] > sample_count[t] =>
                     /\ pc[t] = "body" /\ pc'[t] = "check"
                     /\ sample_count'[t] = sample_count[t] + 1]_vars

\* stop_event is set while every generator thread is in its loop body: each
\* of them is to push once more
StopSetWhileAllInBody ==
    /\ stop_event
    /\ main_pc = "join"
    /\ \A t \in Threads : pc[t] = "body" /\ last_test[t] = "clear"

VerdictIffAllMatched ==
    v_pc = "done" =>
        (all_expected_found <=> \A e \in CatalogNames : summary[e] = FoundLine)

VerdictSuccess ==
    /\ v_pc = "done"
    /\ all_expected_found
    /\ CatalogNames \subseteq names_seen

\* C8: an expected stream whose name no recorded stream carries is reported
\* missing, and the verdict is failure, whatever else was recorded.
MissingEntryFails ==
    v_pc = "done" =>
        \A e \in CatalogNames :
            e \notin names_seen => (summary[e] = MissingLine /\ ~all_expected_found)

OnlyOneEntryMissing ==
    /\ v_pc = "done"
    /\ \E e \in CatalogNames :
         /\ e \notin names_seen
         /\ CatalogNames \ {e} \subseteq names_matching

\* C9 as stated: an expected stream that was recorded with a differing type,
\* channel count or rate gets an outcome other than the one of an expected
\* stream that was not recorded at all.
MismatchedDistinctFromMissing ==
    v_pc = "done" =>
        \A e, m \in CatalogNames :
            (e \in names_seen /\ e \notin names_matching /\ m \notin names_seen)
                => summary[e] # summary[m]

\* C9 as amended: a recorded stream of an expected name is reported VERIFIED
\* exactly when its type, channel count and nominal rate all equal the
\* expected ones and MISMATCH otherwise; an expected stream is found exactly
\* when some recorded stream of its name is verified, and otherwise gets the
\* single outcome "MISSING or MISCONFIGURED", mismatched or missing alike.
VerifiedIffPropertiesEqual ==
    /\ (tag # "" /\ stream.name \in CatalogNames) =>
          /\ tag = "VERIFIED" <=> CarriesExpected(stream)
          /\ tag = "MISMATCH" <=> ~CarriesExpected(stream)
    /\ v_pc = "done" =>
          \A e \in CatalogNames :
              /\ summary[e] = FoundLine <=> e \in names_matching
              /\ summary[e] = MissingLine <=> e \notin names_matching

\* the stream examined last differs from its expected configuration in the
\* nominal rate alone
MismatchInRateOnly ==
    /\ v_pc = "done"
    /\ tag = "MISMATCH"
    /\ stream.name \in CatalogNames
    /\ stream.type = ExpectedOf(stream.name).type
    /\ stream.channel_count = DigitsOf(ExpectedOf(stream.name).n_channels)
    /\ stream.name \notin names_matching
    /\ summary[stream.name] = MissingLine

\* C10: examining a stream of an unexpected name changes no found flag and
\* only prints the INFO line, so the outcome of every expected stream and
\* the verdict are those of the recording without it.
UnexpectedStreamIgnored ==
    /\ [][(stream_index' = stream_index + 1 /\ stream'.name \notin CatalogNames) =>
            /\ found_eeg_streams' = found_eeg_streams
            /\ found_marker_stream' = found_marker_stream
            /\ names_matching' = names_matching
            /\ tag' = "INFO"]_vars
    /\ [](v_pc = "done" => (all_expected_found <=> CatalogNames \subseteq names_matching))

SuccessDespiteUnexpectedStream ==
    /\ v_pc = "done"
    /\ all_expected_found
    /\ UnexpectedName \in names_seen
    /\ tag = "INFO"

\* C12: once the load error is printed the function has returned: no stream
\* is ever examined, no per-stream line and no timing note is printed, no
\* summary line and no verdict is printed.
LoadFailureAborts ==
    load_error =>
        /\ v_pc = "load_error"
        /\ stream_index = 0
        /\ stream = NoStream
        /\ tag = ""
        /\ notes = {}
        /\ names_seen = {}
        /\ \A name \in CatalogNames : summary[name] = ""

EndedAfterLoadFailure ==
    /\ load_error
    /\ v_pc = "load_error"
    /\ exit_status # -1

\* C13, as stated: the exit status of the verify program is 0 exactly when
\* the verdict is success, and non-zero after a failure verdict or a load
\* failure.
ExitStatusReflectsVerdict ==
    exit_status # -1 => (exit_status = 0 <=> (v_pc = "done" /\ all_expected_found))

\* C13: the verify program ends only after the verdict or after the load
\* error, and its exit status is 0 in every case: after the success verdict,
\* after the failure verdict and after a load failure.
ExitStatusAlwaysZero ==
    exit_status # -1 =>
        /\ v_pc \in {"done", "load_error"}
        /\ exit_status = 0

ExitedZeroAfterFailureVerdict ==
    /\ v_pc = "done"
    /\ ~all_expected_found
    /\ stream_index > 0
    /\ exit_status = 0

\* the found flag of a catalog name
FoundFlag(found_eeg, found_marker, name) ==
    IF name \in DOMAIN found_eeg THEN found_eeg[name] ELSE found_marker

\* C14, as stated: the outcome of a catalog entry is the one determined by
\* the last recorded stream of its name.
LastStreamOfNameDecides ==
    (v_pc = "done" /\ stream_index > 0 /\ stream.name \in CatalogNames) =>
        (summary[stream.name] = FoundLine <=> CarriesExpected(stream))

\* C14: a found flag that a verified stream has set is never cleared by a
\* later stream of the same name, so a catalog entry is "Found and verified"
\* exactly when some recorded stream of its name, in whatever position,
\* carries the expected properties.
FirstMatchSticks ==
    /\ [][\A name \in CatalogNames :
            FoundFlag(found_eeg_streams, found_marker_stream, name) =>
                FoundFlag(found_eeg_streams', found_marker_stream', name)]_vars
    /\ [](v_pc = "done" =>
            \A name \in CatalogNames :
                summary[name] = FoundLine <=> name \in names_matching)

FoundDespiteLaterMismatch ==
    /\ v_pc = "done"
    /\ tag = "MISMATCH"
    /\ stream.name \in names_matching
    /\ summary[stream.name] = FoundLine

(***************************************************************************)
(* Claims about the verify program run on recordings of the generator      *)
(***************************************************************************)

\* the configurations the generator streams from
GeneratorConfigs ==
    { eeg_stream_configs[t] : t \in EEGThreads } \cup { marker_stream_config }

\* the recorded stream declares what the generator declares under its name
DeclaredByGenerator(info) ==
    \E c \in GeneratorConfigs : info = StreamInfo(c, info.time_stamps)

\* the time stamps are spaced exactly 1/rate
ExactlySpaced(info) ==
    LET srate == ParseFloat(info.nominal_srate)
    IN  /\ Len(info.time_stamps) > 1
        /\ \A d \in { Diff(info.time_stamps)[k] : k \in DOMAIN Diff(info.time_stamps) } :
              d * srate = TicksPerSecond * MilliHz

\* the expected catalog of the verify program is the catalog of the generator
CatalogsAgree ==
    /\ DOMAIN expected_eeg_streams = { eeg_stream_configs[t].name : t \in EEGThreads }
    /\ \A t \in EEGThreads :
         LET c == eeg_stream_configs[t]
         IN  expected_eeg_streams[c.name] =
               [type |-> c.type, n_channels |-> c.n_channels, srate |-> c.srate]
    /\ expected_marker_stream =
         [name |-> marker_stream_config.name, type |-> marker_stream_config.type,
          n_channels |-> marker_stream_config.n_channels, srate |-> marker_stream_config.srate]

\* C11: the expected catalog of the verify program agrees field for field
\* with the generator's; a recorded stream that declares what the generator
\* declares is [VERIFIED], without a rate warning when its time stamps are
\* spaced exactly 1/rate; and a recording that holds such a stream for every
\* generator configuration gets "Found and verified" on every summary line
\* and the success verdict.
GeneratorRecordingVerifies ==
    /\ CatalogsAgree
    /\ (stream_index > 0 /\ DeclaredByGenerator(stream)) =>
         /\ tag = "VERIFIED"
         /\ ExactlySpaced(stream) => "RATE_WARNING" \notin notes
    /\ (v_pc = "done" /\ \A c \in GeneratorConfigs : c.name \in names_matching) =>
         /\ all_expected_found
         /\ \A c \in GeneratorConfigs : summary[c.name] = FoundLine

GeneratorRecordingVerified ==
    /\ v_pc = "done"
    /\ n_streams = Cardinality(GeneratorConfigs)
    /\ \A c \in GeneratorConfigs : c.name \in names_matching
    /\ DeclaredByGenerator(stream)
    /\ ExactlySpaced(stream)
    /\ notes = {"ACTUAL_RATE"}
    /\ all_expected_found

\* name, type, channel count and nominal rate of a recorded stream
Metadata(info) ==
    [name |-> info.name, type |-> info.type, channel_count |-> info.channel_count,
     nominal_srate |-> info.nominal_srate]

\* what the streams of given metadata make the examination print, taken over
\* all their time stamps
PrintedFor ==
    [m \in { Metadata(info) : info \in TimedStreams } |->
       { Examination(info) : info \in { other \in TimedStreams : Metadata(other) = m } }]

\* C18: what the examination of a stream prints is what any stream of the
\* same name, type, channel count and nominal rate would make it print,
\* whatever its time stamps, and the found flags after it are computed from
\* the flags before it, its name and what was printed; the summary lines and
\* the verdict are computed from the found flags alone. So two recordings
\* that agree stream by stream in these four fields get the same outcome for
\* every entry and the same verdict, though their timing notes may differ.
OutcomeDependsOnMetadataOnly ==
    /\ [][stream_index' = stream_index + 1 =>
            /\ PrintedFor[Metadata(stream')] = {tag'}
            /\ \A name \in CatalogNames :
                 FoundFlag(found_eeg_streams', found_marker_stream', name)
                   <=> \/ FoundFlag(found_eeg_streams, found_marker_stream, name)
                       \/ name = stream'.name /\ tag' = "VERIFIED"]_vars
    /\ [](v_pc = "done" =>
            /\ \A name \in CatalogNames :
                 summary[name] =
                   SummaryLine(FoundFlag(found_eeg_streams, found_marker_stream, name))
            /\ all_expected_found <=>
                 \A name \in CatalogNames :
                     FoundFlag(found_eeg_streams, found_marker_stream, name))
    /\ [][v_pc = "done" =>
            /\ found_eeg_streams' = found_eeg_streams
            /\ found_marker_stream' = found_marker_stream
            /\ summary' = summary
            /\ all_expected_found' = all_expected_found]_vars

\* the verdict is success though the rate of the last stream deviates
SuccessDespiteRateWarning ==
    /\ v_pc = "done"
    /\ all_expected_found
    /\ tag = "VERIFIED"
    /\ "RATE_WARNING" \in notes

\* the stream examined last is an EEG stream with the expected properties,
\* at least two samples and a positive duration
MatchedContinuous ==
    /\ stream_index > 0
    /\ CarriesExpected(stream)
    /\ ParseFloat(stream.nominal_srate) > 0
    /\ Len(stream.time_stamps) >= 2
    /\ stream.time_stamps[Len(stream.time_stamps)] > stream.time_stamps[1]

\* samples per second of the stream examined last, times its duration in
\* ticks and MilliHz: the actual and the nominal rate on one scale
ActualScaled == (Len(stream.time_stamps) - 1) * TicksPerSecond * MilliHz

NominalScaled ==
    ParseFloat(stream.nominal_srate)
      * (stream.time_stamps[Len(stream.time_stamps)] - stream.time_stamps[1])

\* C19: for a matched continuous stream with at least two samples the rate
\* warning is printed exactly when the actual rate is below 0.9 times or
\* above 1.1 times the nominal rate, so not when the rates are equal or
\* differ by exactly 10%, and when the actual rate is 20% below; the stream
\* is [VERIFIED] either way.
RateWarningIffAboveTenPercent ==
    MatchedContinuous =>
        /\ "RATE_WARNING" \in notes
             <=> \/ 10 * ActualScaled < 9 * NominalScaled
                 \/ 10 * ActualScaled > 11 * NominalScaled
        /\ tag = "VERIFIED"

\* the stream examined last is a marker stream with the expected properties
\* and at least two samples
MatchedEvent ==
    /\ stream_index > 0
    /\ CarriesExpected(stream)
    /\ ParseFloat(stream.nominal_srate) = 0
    /\ Len(stream.time_stamps) >= 2

\* all differences of consecutive time stamps of the stream examined last
\* are equal
GapsEqual ==
    \A j, k \in DOMAIN Diff(stream.time_stamps) :
        Diff(stream.time_stamps)[j] = Diff(stream.time_stamps)[k]

TypeOK ==
    /\ main_pc \in {"start", "try", "except", "join", "done", "crashed"}
    /\ stop_event \in BOOLEAN
    /\ \A t \in Threads : pc[t] \in {"idle", "create", "check", "body", "stopped", "failed"}

====
